---------------------------- MODULE Spec2Model ----------------------------
(***************************************************************************)
(* A model of the job-processor: the jobs table and the repository         *)
(* operations on it (create, bulk_create, acquire_next_job,                *)
(* update_job_status), the worker loops with their shared semaphore, the   *)
(* detached executor tasks, and the shutdown coordinator.                  *)
(*                                                                         *)
(* Every task is cut at its await points: one action is the code between   *)
(* two awaits together with the database statement the await waits for.    *)
(***************************************************************************)
EXTENDS Integers, Sequences, FiniteSets, TLC

(***************************************************************************)
(* Bounds of the model.                                                    *)
(***************************************************************************)
\* rows the jobs table may hold
MaxJobs == 2
\* the clock runs from 0 to MaxTime
MaxTime == 1
\* jobs in one bulk_create call
MaxBulk == 2
\* Config.num_workers
NumWorkers == 2
\* Config.max_concurrent_jobs
MaxConcurrentJobs == 1

Workers == 1..NumWorkers
Ids == 1..MaxJobs

(***************************************************************************)
(* Job and JobStatus (api/job/models.rs), JobRow (db/models.rs).           *)
(***************************************************************************)
JobStatus == {"New", "Processing", "Success", "Failed"}
Names == {"alpha", "beta"}
Job == [name : Names, status : JobStatus]

\* the jobs submitted in the model: both names for the jobs that enter the
\* queue, and one job for each other kind of status (claimed, terminal)
JobInputs == {j \in Job : \/ j.status = "New"
                          \/ j.name = "alpha" /\ j.status \in {"Processing", "Success"}}

\* format!("{:?}", job.status): the variant's name
DebugFmt(status) == status

\* str::to_lowercase on the variant names
ToLowercase(s) ==
    CASE s = "New" -> "new"
      [] s = "Processing" -> "processing"
      [] s = "Success" -> "success"
      [] s = "Failed" -> "failed"
      [] OTHER -> s

\* let status_str = format!("{:?}", job.status).to_lowercase();
StatusStr(status) == ToLowercase(DebugFmt(status))

JobRow(id, name, status, created, updated) ==
    [id |-> id, name |-> name, status |-> status,
     created_at |-> created, updated_at |-> updated]

NoJob == [id |-> 0]
NoLast == [st |-> "off"]
Untracked == [st |-> "untracked"]

VARIABLES
    jobs,       \* the jobs table: jobs[i] is the row with id i
    now,        \* the database clock: the latest time a statement has read
    dbOpen,     \* the connection pool has not been closed
    pc,         \* pc[w]: where worker loop w is
    tx,         \* tx[w]: the row worker w's open transaction has locked, or 0
    job,        \* job[w]: the JobRow acquire_next_job returned to worker w
    permits,    \* available permits of the semaphore
    semClosed,  \* the semaphore has been closed
    exec,       \* exec[i]: executor tasks spawned for job i, by phase
    flag,       \* the value of the shutdown watch channel
    server,     \* the HTTP server
    cpc,        \* where the shutdown coordinator is
    joined,     \* worker handles the coordinator has awaited
    last        \* history, kept by the specifications that start with it
                \* set to NoLast: what the last create, bulk_create or
                \* upload returned, until the next statement on the table
                \* or the end of the acquire_next_job call that follows;
                \* or the loop whose permit acquisition failed last; or
                \* the job whose update_job_status failed last; or, from
                \* InitFlag, the calls begun with the flag set

vars == <<jobs, now, dbOpen, pc, tx, job, permits, semClosed, exec, flag, server,
          cpc, joined, last>>

storeVars == <<jobs, now, dbOpen>>
workerVars == <<pc, tx, job>>
coordVars == <<flag, server, cpc, joined>>

(***************************************************************************)
(* The jobs table.                                                         *)
(***************************************************************************)
RowIds == DOMAIN jobs

\* a row lock is held by the transaction that selected the row FOR UPDATE
Locked(i) == \E w \in Workers : tx[w] = i

\* a faulty variant of Claimable: the select without FOR UPDATE SKIP LOCKED
ClaimableNoLock(i) == jobs[i].status = "new"

\* a faulty variant of Claimable: the select without WHERE status = 'new'
ClaimableAnyStatus(i) == ~Locked(i)

\* WHERE status = 'new' ... FOR UPDATE SKIP LOCKED
Claimable(i) == jobs[i].status = "new" /\ ~Locked(i)

\* a faulty variant of Oldest: the select without ORDER BY
OldestAny(S) == S

\* ORDER BY created_at ASC LIMIT 1: the order of rows with equal created_at
\* is not fixed by the query, any of them may be the first
Oldest(S) == {i \in S : \A k \in S : jobs[i].created_at <= jobs[k].created_at}

SelectCandidates == Oldest({i \in RowIds : Claimable(i)})

\* the times a statement running now may read: the clock has moved on since
\* the last statement or it has not
Times == {t \in {now, now + 1} : t <= MaxTime}

\* INSERT INTO jobs (name, status) VALUES ($1, $2) RETURNING ...
\* id, created_at and updated_at take the defaults of the schema
InsertedRow(id, j, t) == JobRow(id, j.name, StatusStr(j.status), t, t)

\* one INSERT statement with a VALUES list: every row gets the same time
RECURSIVE InsertAll(_, _, _)
InsertAll(table, js, t) ==
    IF js = << >> THEN table
    ELSE InsertAll(Append(table, InsertedRow(Len(table) + 1, Head(js), t)),
                   Tail(js), t)

\* a faulty variant of ClaimedRow: the transaction dropped without commit
ClaimedRowNoCommit(row) == row

\* a faulty variant of UpdatedRow: the UPDATE assigns created_at too
UpdatedRowRestamped(row) ==
    [row EXCEPT !.status = "processing", !.created_at = now]

\* UPDATE jobs SET status = 'processing' WHERE id = $1 RETURNING ...
UpdatedRow(row) == [row EXCEPT !.status = "processing"]

\* the row in the table once the transaction has committed
ClaimedRow(row) == UpdatedRow(row)

\* UPDATE ... SET status = $2, updated_at = now WHERE id = $1
FinalizedRow(row, status, t) == [row EXCEPT !.status = status, !.updated_at = t]

Terminal == {"success", "failed"}

\* the history variable after a step, where it is kept
Record(v) == IF last.st \in {"untracked", "late"} THEN last ELSE v

\* the history after a commit by worker w: where the calls begun with the
\* flag set are counted, a job claimed by such a call is counted
RecordCommit(w) ==
    IF last.st = "late"
    THEN [last EXCEPT !.claimed = IF w \in last.open THEN @ + 1 ELSE @,
                      !.open = @ \ {w}]
    ELSE Record(NoLast)

\* the history after a spawn: where the calls begun with the flag set are
\* counted, an executor spawned with the flag set is counted
RecordSpawn ==
    IF last.st = "late"
    THEN [last EXCEPT !.handed = IF flag THEN @ + 1 ELSE @]
    ELSE last

(***************************************************************************)
(* Ingress: JobRepository::create and JobRepository::bulk_create, called   *)
(* by the HTTP handlers while the server accepts requests.                 *)
(***************************************************************************)
\* worker w is inside acquire_next_job
InCall(w) == pc[w] \in {"select", "commit"}

\* the store holds no claimable row and no claim transaction is open
Quiescent == /\ \A i \in RowIds : jobs[i].status # "new"
             /\ \A w \in Workers : ~InCall(w)

Create(j) ==
    /\ server = "serving"
    /\ dbOpen
    /\ Len(jobs) < MaxJobs
    /\ \E t \in Times :
         LET row == InsertedRow(Len(jobs) + 1, j, t) IN
           /\ jobs' = Append(jobs, row)
           /\ now' = t
           /\ last' = Record([st |-> IF Quiescent THEN "armed" ELSE "created",
                       req |-> j, row |-> row])
    /\ UNCHANGED <<dbOpen, workerVars, permits, semClosed, exec, coordVars>>

\* the INSERT failed: Err(sqlx::Error), no row
CreateFail(j) ==
    /\ server = "serving"
    /\ last' = Record(NoLast)
    /\ UNCHANGED <<storeVars, workerVars, permits, semClosed, exec, coordVars>>

BulkInputs == UNION {[1..n -> JobInputs] : n \in 0..MaxBulk}

\* a faulty variant of FailedBulkTable: one INSERT per job, the last one failing
FailedBulkTablePartial(table, js, t) ==
    InsertAll(table, SubSeq(js, 1, Len(js) - 1), t)

\* the single INSERT statement failed: none of its rows is stored
FailedBulkTable(table, js, t) == table

\* a faulty variant of ReturnsEarly: bulk_create without its first test
ReturnsEarlyNever(js) == FALSE

\* if jobs.is_empty() { return Ok(0); }
ReturnsEarly(js) == js = << >>

BulkCreate(js) ==
    /\ server = "serving"
    /\ ~ReturnsEarly(js) => dbOpen
    /\ Len(jobs) + Len(js) <= MaxJobs
    /\ \E t \in Times :
         LET table == InsertAll(jobs, js, t) IN
         /\ jobs' = table
         /\ now' = IF ReturnsEarly(js) THEN now ELSE t
         /\ last' = Record([st |-> "bulk", ok |-> TRUE, k |-> Len(js),
                            before |-> Len(jobs),
                            ret |-> Len(table) - Len(jobs)])
    /\ UNCHANGED <<dbOpen, workerVars, permits, semClosed, exec, coordVars>>

BulkCreateFail(js) ==
    /\ server = "serving"
    /\ ~ReturnsEarly(js)
    /\ Len(jobs) + Len(js) <= MaxJobs
    /\ \E t \in Times :
         jobs' = FailedBulkTable(jobs, js, t)
    /\ last' = Record([st |-> "bulk", ok |-> FALSE, k |-> Len(js), before |-> Len(jobs)])
    /\ UNCHANGED <<now, dbOpen, workerVars, permits, semClosed, exec, coordVars>>

(***************************************************************************)
(* JobWorker::run: the loop of worker w.  pc[w] is                         *)
(*   "top"      at the head of the loop, before reading the shutdown flag  *)
(*   "select"   in acquire_next_job, transaction begun                     *)
(*   "commit"   the row tx[w] selected and locked; UPDATE and COMMIT to    *)
(*              come, neither visible to another transaction before the    *)
(*              commit                                                     *)
(*   "permit"   acquire_next_job returned Some(job[w]); awaiting a permit  *)
(*   "sleep"    acquire_next_job returned None or Err; in the 5 s or the   *)
(*              1 s sleep, after which the loop goes on                    *)
(*   "stopped"  the loop has ended                                         *)
(***************************************************************************)
\* a faulty variant of AfterNone: the loop ends when the queue is empty
AfterNoneBreak == "stopped"

\* Ok(None) => sleep(Duration::from_secs(5))
AfterNone == "sleep"

\* a faulty variant of ShutdownRx: the value the channel was created with
ShutdownRxStale == FALSE

\* *shutdown_rx.borrow(): the latest value sent on the watch channel
ShutdownRx == flag

\* a faulty variant of AfterError: the loop ends on a store error
AfterErrorBreak == "stopped"

\* Err(e) => sleep(Duration::from_secs(1))
AfterError == "sleep"

\* if *shutdown_rx.borrow() { break; }
ObserveShutdown(w) ==
    /\ pc[w] = "top"
    /\ ShutdownRx
    /\ pc' = [pc EXCEPT ![w] = "stopped"]
    /\ UNCHANGED <<storeVars, tx, job, permits, semClosed, exec, coordVars, last>>

\* the flag reads false; let mut tx = pool.begin().await?;
Begin(w) ==
    /\ pc[w] = "top"
    /\ ~ShutdownRx
    /\ dbOpen
    /\ pc' = [pc EXCEPT ![w] = "select"]
    /\ last' = Record(IF last.st = "armed" THEN [last EXCEPT !.st = "call"]
                                          ELSE NoLast)
    /\ UNCHANGED <<storeVars, tx, job, permits, semClosed, exec, coordVars>>

\* SELECT ... FOR UPDATE SKIP LOCKED returned a row, which is now locked
SelectSome(w) ==
    /\ pc[w] = "select"
    /\ \E i \in SelectCandidates :
         tx' = [tx EXCEPT ![w] = i]
    /\ pc' = [pc EXCEPT ![w] = "commit"]
    /\ UNCHANGED <<storeVars, job, permits, semClosed, exec, coordVars, last>>

\* the select returned no row: tx.rollback(), return Ok(None)
SelectNone(w) ==
    /\ pc[w] = "select"
    /\ SelectCandidates = {}
    /\ pc' = [pc EXCEPT ![w] = AfterNone]
    /\ last' = Record(NoLast)
    /\ UNCHANGED <<storeVars, tx, job, permits, semClosed, exec, coordVars>>

\* UPDATE ... RETURNING, then tx.commit(): the update becomes visible, the
\* lock is released, and acquire_next_job returns Ok(Some(updated_job))
Commit(w) ==
    /\ pc[w] = "commit"
    /\ jobs' = [jobs EXCEPT ![tx[w]] = ClaimedRow(@)]
    /\ job' = [job EXCEPT ![w] = UpdatedRow(jobs[tx[w]])]
    /\ tx' = [tx EXCEPT ![w] = 0]
    /\ pc' = [pc EXCEPT ![w] = "permit"]
    /\ last' = RecordCommit(w)
    /\ UNCHANGED <<now, dbOpen, permits, semClosed, exec, coordVars>>

\* a faulty variant of RolledBack: the failed transaction keeps its lock
RolledBackNever(w) == tx

\* the Transaction is dropped without commit: it is rolled back, its
\* update is discarded and its row lock released
RolledBack(w) == [tx EXCEPT ![w] = 0]

\* a store error at an await of acquire_next_job (begin, select, update,
\* commit): the transaction is dropped, which rolls it back and releases
\* its lock, and the loop sleeps 1 s
ClaimError(w) ==
    /\ (pc[w] = "top" /\ ~ShutdownRx) \/ InCall(w)
    /\ tx' = RolledBack(w)
    /\ pc' = [pc EXCEPT ![w] = AfterError]
    /\ last' = Record(NoLast)
    /\ UNCHANGED <<storeVars, job, permits, semClosed, exec, coordVars>>

\* either sleep is over
Wake(w) ==
    /\ pc[w] = "sleep"
    /\ pc' = [pc EXCEPT ![w] = "top"]
    /\ UNCHANGED <<storeVars, tx, job, permits, semClosed, exec, coordVars, last>>

\* a faulty variant of PermitAvailable: the executor spawned without a permit
PermitAvailableAlways == TRUE

\* semaphore.acquire_owned() resolves to Ok(permit) when a permit is
\* available and the semaphore is not closed
PermitAvailable == ~semClosed /\ permits > 0

\* a faulty variant of AfterRelease: the permit is leaked
AfterReleaseLeak(n) == n

\* drop(permit)
AfterRelease(n) == n + 1

NoExec == [run |-> 0, done |-> 0]

\* Ok(permit) => tokio::spawn(async move { ... }), and the loop goes on
Spawn(w) ==
    /\ pc[w] = "permit"
    /\ PermitAvailable
    /\ permits' = permits - 1
    /\ exec' = [exec EXCEPT ![job[w].id].run = @ + 1]
    /\ job' = [job EXCEPT ![w] = NoJob]
    /\ pc' = [pc EXCEPT ![w] = "top"]
    /\ last' = RecordSpawn
    /\ UNCHANGED <<storeVars, tx, semClosed, coordVars>>

\* a faulty variant of AfterPermitError: what the Err arm would do with a break
AfterPermitErrorBreak == "stopped"

\* Err(e) => { error!(...) }: the arm ends, the match ends, the loop goes on
AfterPermitError == "top"

\* acquire_owned() resolves to Err(AcquireError): the semaphore is closed.
\* The job the loop holds is dropped with the arm.
PermitError(w) ==
    /\ pc[w] = "permit"
    /\ semClosed
    /\ job' = [job EXCEPT ![w] = NoJob]
    /\ pc' = [pc EXCEPT ![w] = AfterPermitError]
    /\ last' = Record([st |-> "permit failed", w |-> w])
    /\ UNCHANGED <<storeVars, tx, permits, semClosed, exec, coordVars>>

(***************************************************************************)
(* The executor task of job i: sleep, draw the outcome, update_job_status, *)
(* drop the permit.  exec[i].run counts the tasks spawned for job i that   *)
(* have not ended, exec[i].done those that have.                           *)
(***************************************************************************)
\* let status = if success_rate < 77 { "success" } else { "failed" };
Outcomes == {"success", "failed"}

\* main has not returned: the runtime is alive and polls the spawned tasks
Running == cpc # "exited"

\* a faulty variant of PoolAccepts: a closed pool still serves statements
PoolAcceptsClosed == TRUE

\* a statement on the pool can succeed: after pool.close() every acquire
\* fails with PoolClosed
PoolAccepts == dbOpen

\* update_job_status returned Ok; drop(permit); the task ends
Finish(i, status) ==
    /\ Running
    /\ exec[i].run > 0
    /\ PoolAccepts
    /\ \E t \in Times :
         /\ jobs' = [jobs EXCEPT ![i] = FinalizedRow(@, status, t)]
         /\ now' = t
    /\ exec' = [exec EXCEPT ![i].run = @ - 1, ![i].done = @ + 1]
    /\ permits' = AfterRelease(permits)
    /\ last' = Record(NoLast)
    /\ UNCHANGED <<dbOpen, workerVars, semClosed, coordVars>>

\* a faulty variant of AfterFinalizeError: the task stays to call again
AfterFinalizeErrorRetry(e) == e

\* Err(e) => error!(...): the match ends and the task runs on to its end
AfterFinalizeError(e) == [e EXCEPT !.run = @ - 1, !.done = @ + 1]

\* update_job_status returned Err: logged, the row is left as it is;
\* drop(permit); the task ends
FinishError(i) ==
    /\ Running
    /\ exec[i].run > 0
    /\ exec' = [exec EXCEPT ![i] = AfterFinalizeError(@)]
    /\ permits' = AfterRelease(permits)
    /\ last' = Record([st |-> "finalize failed", i |-> i])
    /\ UNCHANGED <<storeVars, workerVars, semClosed, coordVars>>

(***************************************************************************)
(* ShutdownCoordinator::wait_for_shutdown and ::shutdown.  cpc is          *)
(*   "wait"   awaiting CTRL+C or SIGTERM                                   *)
(*   "send"   the HTTP server stopped; about to send on the channel        *)
(*   "join"   awaiting the worker handles, in order                        *)
(*   "server" awaiting the server task                                     *)
(*   "close"  about to close the pool                                      *)
(*   "done"   shutdown returned Ok(())                                     *)
(*   "exited" main returned what wait_for_shutdown returned: the runtime   *)
(*            is dropped, and with it every task that has not ended        *)
(* server is "serving", "stopped" after the graceful stop, or "failed"     *)
(* when the server task has ended with an error or a panic.                *)
(***************************************************************************)
\* a signal arrives; self.server_handle.stop(true).await
StopServer ==
    /\ cpc = "wait"
    /\ server' = IF server = "failed" THEN server ELSE "stopped"
    /\ cpc' = "send"
    /\ UNCHANGED <<storeVars, workerVars, permits, semClosed, exec, flag, joined, last>>

\* self.shutdown_tx.send(true)
SendShutdown ==
    /\ cpc = "send"
    /\ flag' = TRUE
    /\ cpc' = "join"
    /\ UNCHANGED <<storeVars, workerVars, permits, semClosed, exec, server, joined, last>>

\* a faulty variant of WorkerFinished: the handle dropped, not awaited
WorkerFinishedAlways(w) == TRUE

\* a faulty variant of WorkerFinished: the await of the handle of a task
\* that panicked never resolves
WorkerFinishedNormally(w) == pc[w] = "stopped"

\* handle.await resolves when the task of worker w has ended: Ok when run
\* returned, Err(JoinError) when the task panicked
WorkerFinished(w) == pc[w] \in {"stopped", "panicked"}

\* handle.await for the next worker handle
JoinWorker ==
    /\ cpc = "join"
    /\ joined < NumWorkers
    /\ WorkerFinished(joined + 1)
    /\ joined' = joined + 1
    /\ UNCHANGED <<storeVars, workerVars, permits, semClosed, exec, flag, server, cpc, last>>

\* every handle awaited
AllJoined ==
    /\ cpc = "join"
    /\ joined = NumWorkers
    /\ cpc' = "server"
    /\ UNCHANGED <<storeVars, workerVars, permits, semClosed, exec, flag, server, joined, last>>

\* the server task has ended: Ok(Ok(_)) after the stop, or Ok(Err(e)) or
\* Err(e) when the server failed or panicked
ServerTaskEnded == server \in {"stopped", "failed"}

\* self.server_task.await
AwaitServer ==
    /\ cpc = "server"
    /\ ServerTaskEnded
    /\ cpc' = "close"
    /\ UNCHANGED <<storeVars, workerVars, permits, semClosed, exec, flag, server, joined, last>>

\* self.pool.close().await
ClosePool ==
    /\ cpc = "close"
    /\ dbOpen' = FALSE
    /\ cpc' = "done"
    /\ last' = Record(NoLast)
    /\ UNCHANGED <<jobs, now, workerVars, permits, semClosed, exec, flag, server, joined>>

\* coordinator.wait_for_shutdown().await is the value of main: main returns
Exit ==
    /\ cpc = "done"
    /\ cpc' = "exited"
    /\ UNCHANGED <<storeVars, workerVars, permits, semClosed, exec, flag, server, joined, last>>

(***************************************************************************)
(* The system: main() has opened the pool, created the channel and the     *)
(* semaphore, spawned the workers and the server.                          *)
(***************************************************************************)
Init ==
    /\ jobs = << >>
    /\ now = 0
    /\ dbOpen = TRUE
    /\ pc = [w \in Workers |-> "top"]
    /\ tx = [w \in Workers |-> 0]
    /\ job = [w \in Workers |-> NoJob]
    /\ permits = MaxConcurrentJobs
    /\ semClosed = FALSE
    /\ exec = [i \in Ids |-> NoExec]
    /\ flag = FALSE
    /\ server = "serving"
    /\ cpc = "wait"
    /\ joined = 0
    /\ last = Untracked

Ingress ==
    \/ \E j \in JobInputs : Create(j)
    \/ \E j \in JobInputs : CreateFail(j)
    \/ \E js \in BulkInputs : BulkCreate(js)
    \/ \E js \in BulkInputs : BulkCreateFail(js)

Worker(w) ==
    \/ ObserveShutdown(w)
    \/ Begin(w)
    \/ SelectSome(w)
    \/ SelectNone(w)
    \/ Commit(w)
    \/ ClaimError(w)
    \/ Wake(w)
    \/ Spawn(w)

Executor(i) ==
    \/ \E s \in Outcomes : Finish(i, s)
    \/ FinishError(i)

Coordinator ==
    \/ StopServer
    \/ SendShutdown
    \/ JoinWorker
    \/ AllJoined
    \/ AwaitServer
    \/ ClosePool
    \/ Exit

Next ==
    \/ Ingress
    \/ \E w \in Workers : Worker(w)
    \/ \E i \in Ids : Executor(i)
    \/ Coordinator

Spec == Init /\ [][Next]_vars

(***************************************************************************)
(* The store alone, with the history of the last ingress call kept: the    *)
(* ingress, the worker loops and the executors, no store error inside      *)
(* acquire_next_job or update_job_status and no shutdown.                  *)
(***************************************************************************)
InitStore ==
    /\ jobs = << >>
    /\ now = 0
    /\ dbOpen = TRUE
    /\ pc = [w \in Workers |-> "top"]
    /\ tx = [w \in Workers |-> 0]
    /\ job = [w \in Workers |-> NoJob]
    /\ permits = MaxConcurrentJobs
    /\ semClosed = FALSE
    /\ exec = [i \in Ids |-> NoExec]
    /\ flag = FALSE
    /\ server = "serving"
    /\ cpc = "wait"
    /\ joined = 0
    /\ last = NoLast

Claiming(w) ==
    \/ Begin(w)
    \/ SelectSome(w)
    \/ SelectNone(w)
    \/ Commit(w)

NextStore ==
    \/ Ingress
    \/ \E w \in Workers : Claiming(w)
    \/ \E w \in Workers : Wake(w)
    \/ \E w \in Workers : Spawn(w)
    \/ \E i \in Ids : \E s \in Outcomes : Finish(i, s)

SpecStore == InitStore /\ [][NextStore]_vars

(***************************************************************************)
(* A store seeded with rows in status new, and one acquire_next_job call   *)
(* by each of any number of the callers, run concurrently; no store        *)
(* error, no executor.                                                     *)
(***************************************************************************)
SeededRows(n) ==
    {r \in [1..n -> [id : 1..n, name : Names, status : {"new"},
                     created_at : 0..MaxTime, updated_at : 0..MaxTime]] :
        /\ \A i \in 1..n : r[i].id = i /\ r[i].updated_at = r[i].created_at
        /\ \A i \in 1..n : \A k \in 1..n :
             i <= k => r[i].created_at <= r[k].created_at}

InitSeeded ==
    /\ jobs \in UNION {SeededRows(n) : n \in 0..MaxJobs}
    /\ now = IF jobs = << >> THEN 0 ELSE jobs[Len(jobs)].created_at
    /\ dbOpen = TRUE
    /\ pc = [w \in Workers |-> "top"]
    /\ tx = [w \in Workers |-> 0]
    /\ job = [w \in Workers |-> NoJob]
    /\ permits = MaxConcurrentJobs
    /\ semClosed = FALSE
    /\ exec = [i \in Ids |-> NoExec]
    /\ flag = FALSE
    /\ server = "serving"
    /\ cpc = "wait"
    /\ joined = 0
    /\ last = Untracked

NextSeeded == \E w \in Workers : Claiming(w)

SpecSeeded == InitSeeded /\ [][NextSeeded]_vars

(***************************************************************************)
(* The system under fair scheduling, with no shutdown signal and no store  *)
(* error: every worker loop and every executor task that can take a step   *)
(* eventually takes one.                                                   *)
(***************************************************************************)
IngressOk ==
    \/ \E j \in JobInputs : Create(j)
    \/ \E js \in BulkInputs : BulkCreate(js)

WorkerLive(w) ==
    \/ Claiming(w)
    \/ Wake(w)
    \/ Spawn(w)

ExecutorLive(i) == \E s \in Outcomes : Finish(i, s)

NextLive ==
    \/ IngressOk
    \/ \E w \in Workers : WorkerLive(w)
    \/ \E i \in Ids : ExecutorLive(i)

LiveSpec ==
    /\ Init
    /\ [][NextLive]_vars
    /\ \A w \in Workers : WF_vars(WorkerLive(w))
    /\ \A i \in Ids : WF_vars(ExecutorLive(i))

(***************************************************************************)
(* Properties.                                                             *)
(***************************************************************************)
Min(a, b) == IF a <= b THEN a ELSE b

RECURSIVE SumRun(_)
SumRun(S) == IF S = {} THEN 0
             ELSE LET i == CHOOSE x \in S : TRUE IN exec[i].run + SumRun(S \ {i})

\* executor tasks spawned and not ended
InFlight == SumRun(Ids)

\* how many times acquire_next_job has returned the job with id i: each
\* returned job is held by the loop that awaits a permit for it, or has
\* been handed to an executor task
Delivered(i) ==
    Cardinality({w \in Workers : job[w].id = i}) + exec[i].run + exec[i].done

\* C1: no job id is returned by two acquire_next_job calls, whatever the
\* interleaving of the worker loops, and every id returned is the id of a
\* row of the table, which has left status new.
NoDoubleDelivery ==
    \A i \in Ids :
        /\ Delivered(i) <= 1
        /\ Delivered(i) = 1 => i \in RowIds /\ jobs[i].status # "new"

\* two concurrent calls have returned, each with its own job
NoDoubleDeliveryWitness ==
    \E v \in Workers : \E w \in Workers :
        /\ v # w
        /\ pc[v] = "permit" /\ pc[w] = "permit"
        /\ job[v].id # job[w].id

Returned == {w \in Workers : pc[w] \in {"permit", "sleep"}}

\* C2: seeded with N rows in status new, once every one of the concurrent
\* acquire_next_job calls has returned, exactly min(calls, N) rows are in
\* status processing.
ClaimCount ==
    (\A w \in Workers : ~InCall(w)) =>
        Cardinality({i \in RowIds : jobs[i].status = "processing"})
            = Min(Cardinality(Returned), Len(jobs))

\* every caller has returned: one with a job, one with None
ClaimCountWitness ==
    /\ Returned = Workers
    /\ \E w \in Workers : pc[w] = "permit"
    /\ \E w \in Workers : pc[w] = "sleep"
    /\ Len(jobs) >= 1

NewIds == {i \in RowIds : jobs[i].status = "new"}

\* the row in status new that is first by (created_at, id)
FifoHead ==
    CHOOSE i \in NewIds : \A k \in NewIds :
        \/ jobs[i].created_at < jobs[k].created_at
        \/ jobs[i].created_at = jobs[k].created_at /\ i <= k

\* C3: with no other claim transaction open, the select of acquire_next_job
\* takes the row in status new that is smallest by (created_at, id).
FifoTieBreak ==
    [][\A w \in Workers :
        (/\ pc[w] = "select"
         /\ pc'[w] = "commit"
         /\ \A v \in Workers \ {w} : ~InCall(v))
        => tx'[w] = FifoHead]_vars

\* two rows stored at the same time are in status new, no other claim is
\* open, and the select has locked the one with the larger id
FifoTieBreakWitness ==
    \E w \in Workers :
        /\ pc[w] = "commit" /\ tx[w] = 2
        /\ \A v \in Workers \ {w} : ~InCall(v)
        /\ jobs[1].status = "new"
        /\ jobs[1].created_at = jobs[2].created_at

\* C4: a row in status success or failed keeps its status in every step.
TerminalAbsorbing ==
    [][\A i \in RowIds :
        jobs[i].status \in Terminal =>
            i \in DOMAIN jobs' /\ jobs'[i].status = jobs[i].status]_vars

\* a row finalized by its executor, while a claim transaction holds a row
TerminalAbsorbingWitness ==
    \E i \in RowIds :
        /\ jobs[i].status \in Terminal
        /\ exec[i].done = 1
        /\ \E w \in Workers : pc[w] = "commit"

\* C5: no job ever has two executor tasks, at the same time or one after
\* the other.
OneExecutorPerJob == \A i \in Ids : exec[i].run + exec[i].done <= 1

\* one job's executor has ended and another job's is running
OneExecutorPerJobWitness ==
    \E i \in Ids : \E k \in Ids : exec[i].done = 1 /\ exec[k].run = 1

\* C6: under fair scheduling, with no shutdown and no store error, every
\* row stored with status new is eventually returned by acquire_next_job.
NoLostJobs ==
    \A i \in Ids :
        (i \in RowIds /\ jobs[i].status = "new") ~> (\E w \in Workers : job[w].id = i)

\* the last row the table can hold has been returned to a worker loop
NoLostJobsWitness ==
    \E w \in Workers : job[w].id = MaxJobs /\ exec[1].done = 1

\* what create does: the row it stores has the status submitted with the
\* job, in lower case, and the record returned is that row, with the id
\* the table assigned
CreateStoresGivenStatus ==
    last.st \in {"created", "armed"} =>
        /\ last.row.id = Len(jobs)
        /\ jobs[last.row.id] = last.row
        /\ last.row.name = last.req.name
        /\ last.row.status = StatusStr(last.req.status)

\* C7: the row create stores has status new when the insert commits, and
\* the record returned is that row, with the id the table assigned.
CreateStoresNew ==
    last.st \in {"created", "armed"} =>
        /\ last.row.id = Len(jobs)
        /\ jobs[last.row.id] = last.row
        /\ last.row.status = "new"

\* create has stored a job submitted with status Processing
CreateStoresNewWitness ==
    /\ last.st \in {"created", "armed"}
    /\ last.req.status = "Processing"
    /\ jobs[Len(jobs)].status = "processing"

\* C8: bulk_create of K jobs returns Ok and the table has K rows more, or it
\* returns Err and the table has the rows it had.
BulkAtomic ==
    last.st = "bulk" =>
        Len(jobs) = last.before + (IF last.ok THEN last.k ELSE 0)

\* a bulk_create of two jobs has failed
BulkAtomicWitness == last.st = "bulk" /\ ~last.ok /\ last.k = 2

\* the step in which the acquire_next_job call of worker w returns
Returns(w) == InCall(w) /\ pc'[w] \notin {"select", "commit"}

\* what the round trip does for a job submitted with status New
RoundTripOfNew ==
    [][\A w \in Workers :
        (last.st = "call" /\ Returns(w) /\ last.req.status = "New") =>
            /\ pc'[w] = "permit"
            /\ job'[w].id = last.row.id
            /\ job'[w].name = last.req.name
            /\ job'[w].status = "processing"]_vars

\* C9: from a store with no claimable row, create of a job followed by one
\* acquire_next_job, nothing else in between, returns the record with the
\* id create returned, the job's name and status processing.
RoundTrip ==
    [][\A w \in Workers :
        (last.st = "call" /\ Returns(w)) =>
            /\ pc'[w] = "permit"
            /\ job'[w].id = last.row.id
            /\ job'[w].name = last.req.name
            /\ job'[w].status = "processing"]_vars

\* the call that follows the create of a job submitted with status
\* Processing has selected and found no row
RoundTripWitness ==
    /\ last.st = "call"
    /\ last.req.status = "Processing"
    /\ \E w \in Workers : pc[w] = "select" /\ SelectCandidates = {}

\* C10: the executor tasks spawned and not ended are never more than
\* max_concurrent_jobs, with more worker loops than permits too.
BoundedExecutors == InFlight <= MaxConcurrentJobs

\* every permit is held and a worker loop waits for one with its job
BoundedExecutorsWitness ==
    /\ NumWorkers > MaxConcurrentJobs
    /\ InFlight = MaxConcurrentJobs
    /\ \E w \in Workers : pc[w] = "permit"

(***************************************************************************)
(* A run over a table seeded with rows in status new, each stored later    *)
(* than the one before, with no ingress:                                   *)
(* the worker loops, the executors and the shutdown coordinator, store     *)
(* errors included, every task fairly scheduled.                           *)
(***************************************************************************)
SpacedRows(n) ==
    {r \in SeededRows(n) :
        \A i \in 1..n : \A k \in 1..n :
            i < k => r[i].created_at < r[k].created_at}

InitSpaced ==
    /\ jobs \in UNION {SpacedRows(n) : n \in 0..MaxJobs}
    /\ now = IF jobs = << >> THEN 0 ELSE jobs[Len(jobs)].created_at
    /\ dbOpen = TRUE
    /\ pc = [w \in Workers |-> "top"]
    /\ tx = [w \in Workers |-> 0]
    /\ job = [w \in Workers |-> NoJob]
    /\ permits = MaxConcurrentJobs
    /\ semClosed = FALSE
    /\ exec = [i \in Ids |-> NoExec]
    /\ flag = FALSE
    /\ server = "serving"
    /\ cpc = "wait"
    /\ joined = 0
    /\ last = Untracked

NextShutdown ==
    \/ \E w \in Workers : Worker(w)
    \/ \E i \in Ids : Executor(i)
    \/ Coordinator

SpecShutdown ==
    /\ InitSpaced
    /\ [][NextShutdown]_vars
    /\ \A w \in Workers : WF_vars(Worker(w))
    /\ \A i \in Ids : WF_vars(Executor(i))
    /\ WF_vars(Coordinator)

\* C11: the coordinator stops the server, then sets the flag, then awaits
\* every worker loop, then awaits the server task, then closes the pool,
\* each step done before the next: the flag is set only with the server
\* stopped, a worker handle counts as awaited only when its loop has ended,
\* the server task is awaited only with every loop ended, and the pool is
\* closed only after that.
ShutdownOrder ==
    /\ cpc # "wait" => server = "stopped"
    /\ flag <=> cpc \notin {"wait", "send"}
    /\ \A w \in 1..joined : pc[w] = "stopped"
    /\ cpc \in {"server", "close", "done", "exited"} => joined = NumWorkers
    /\ ~dbOpen <=> cpc \in {"done", "exited"}
    /\ ~dbOpen => \A w \in Workers : pc[w] = "stopped"

\* the sequence has run to its end over a table with a claimed row
ShutdownOrderWitness ==
    /\ cpc = "done"
    /\ ~dbOpen
    /\ \E i \in RowIds : jobs[i].status = "processing"

\* C12: once the flag is set every worker loop ends, whatever it was doing
\* when the flag was set, under fair scheduling.
ShutdownLiveness == flag ~> (\A w \in Workers : pc[w] = "stopped")

\* the flag is set while one loop sleeps and the other awaits a permit
ShutdownLivenessWitness ==
    /\ flag
    /\ \E w \in Workers : pc[w] = "sleep"
    /\ \E w \in Workers : pc[w] = "permit" /\ permits = 0

\* C13: when the coordinator closes the pool, and from then on, no
\* acquire_next_job transaction is open and no row is locked.
NoOpenClaimAtClose ==
    (cpc = "close" \/ ~dbOpen) =>
        \A w \in Workers : tx[w] = 0 /\ ~InCall(w)

\* the pool is about to be closed with a row claimed and a row queued
NoOpenClaimAtCloseWitness ==
    /\ cpc = "close"
    /\ \E i \in RowIds : jobs[i].status = "processing"
    /\ \E i \in RowIds : jobs[i].status = "new"

\* C14: a worker loop ends only by reading the flag set at the head of the
\* loop; a store error in acquire_next_job does not end it.
LoopSurvivesErrors ==
    [][\A w \in Workers :
        (pc[w] # "stopped" /\ pc'[w] = "stopped") =>
            (pc[w] = "top" /\ flag)]_vars

\* the one seeded row is still new and unlocked with a loop asleep, so an
\* acquire_next_job call has failed, and the other loop is in a call
LoopSurvivesErrorsWitness ==
    /\ Len(jobs) = 1
    /\ jobs[1].status = "new"
    /\ pc[1] = "select"
    /\ pc[2] = "sleep"

\* C19: the flag starts false, changes only in the coordinator's send,
\* never goes back to false, and a worker loop that reads it at the head
\* of the loop once it is true ends.
FlagMonotonic ==
    /\ flag = FALSE
    /\ [][/\ flag => flag'
          /\ flag' # flag => cpc = "send" /\ cpc' = "join"
          /\ \A w \in Workers :
               (flag /\ pc[w] = "top" /\ pc'[w] # "top") => pc'[w] = "stopped"]_vars

\* the flag is true, one loop has read it and ended, the other has not yet
FlagMonotonicWitness ==
    /\ flag
    /\ \E w \in Workers : pc[w] = "stopped"
    /\ \E w \in Workers : pc[w] \notin {"stopped", "top"}

(***************************************************************************)
(* JobWorker::run handed a semaphore that its owner has closed.  main      *)
(* never closes the semaphore it creates, so these runs are runs of the    *)
(* worker loops, not of the program: they show what the Err arm of the     *)
(* permit match does.  No store error.                                     *)
(***************************************************************************)
InitClosed ==
    /\ jobs \in UNION {SpacedRows(n) : n \in 0..MaxJobs}
    /\ now = IF jobs = << >> THEN 0 ELSE jobs[Len(jobs)].created_at
    /\ dbOpen = TRUE
    /\ pc = [w \in Workers |-> "top"]
    /\ tx = [w \in Workers |-> 0]
    /\ job = [w \in Workers |-> NoJob]
    /\ permits = MaxConcurrentJobs
    /\ semClosed = TRUE
    /\ exec = [i \in Ids |-> NoExec]
    /\ flag = FALSE
    /\ server = "serving"
    /\ cpc = "wait"
    /\ joined = 0
    /\ last = NoLast

WorkerClosed(w) ==
    \/ ObserveShutdown(w)
    \/ Claiming(w)
    \/ Wake(w)
    \/ PermitError(w)

NextClosed ==
    \/ \E w \in Workers : WorkerClosed(w)
    \/ Coordinator

SpecClosed == InitClosed /\ [][NextClosed]_vars

ExecutorsRunToCompletion ==
    cpc = "exited" => \A i \in Ids : exec[i].run = 0

\* main has returned while the executor of a claimed job had not ended:
\* the task is dropped with the runtime and the row stays in processing
ExecutorsRunToCompletionWitness ==
    /\ cpc = "exited"
    /\ \E i \in RowIds : exec[i].run = 1 /\ jobs[i].status = "processing"

\* C17: with no shutdown and no store error, under fair scheduling, every
\* row in status new is eventually in status success or failed.
DrainToTerminal ==
    \A i \in Ids :
        (i \in RowIds /\ jobs[i].status = "new") ~>
            (i \in RowIds /\ jobs[i].status \in Terminal)

\* every row the table can hold was claimed by a worker loop and has been
\* finalized by its executor
DrainToTerminalWitness ==
    \A i \in Ids :
        i \in RowIds /\ jobs[i].status \in Terminal /\ exec[i].done = 1

\* C18, as amended: when the shutdown sequence completes, every seeded row
\* that a worker loop claimed is in status processing, success or failed
\* and has been handed to its executor, and every other seeded row is
\* still in status new, unlocked and held by no loop.
StateAtShutdown ==
    cpc = "done" =>
        \A i \in RowIds :
            /\ ~Locked(i)
            /\ jobs[i].status = "new" => Delivered(i) = 0
            /\ jobs[i].status # "new" =>
                 /\ jobs[i].status \in {"processing"} \cup Terminal
                 /\ exec[i].run + exec[i].done = 1

\* the sequence has completed with one row claimed, its executor still
\* running, and one row still queued
StateAtShutdownWitness ==
    /\ cpc = "done"
    /\ \E i \in RowIds : jobs[i].status = "processing" /\ exec[i].run = 1
    /\ \E i \in RowIds : jobs[i].status = "new"

\* C18: when the shutdown sequence completes, every seeded row is in status
\* processing, success or failed.
NoRowQueuedAtShutdown ==
    cpc = "done" =>
        \A i \in RowIds : jobs[i].status \in {"processing"} \cup Terminal

(***************************************************************************)
(* One worker loop, one permit, over a table seeded with rows in status    *)
(* new, each stored later than the one before; the second loop is never    *)
(* started.  No store error, no shutdown.                                  *)
(***************************************************************************)
NextFifo ==
    \/ Claiming(1)
    \/ Wake(1)
    \/ Spawn(1)
    \/ \E i \in Ids : \E s \in Outcomes : Finish(i, s)

SpecFifo == InitSpaced /\ [][NextFifo]_vars

MaxDbConnections == 1

\* a faulty variant of HoldsConn: the transaction committed after the spawn
HoldsConnUntilSpawn(w) == pc[w] \in {"select", "commit", "permit"}

\* the transaction tx of worker w is open, and owns a connection
HoldsConn(w) == InCall(w)

ConnsInUse == Cardinality({w \in Workers : HoldsConn(w)})

\* the pool can hand out a connection
ConnFree == ConnsInUse < MaxDbConnections

\* pool.begin().await resolves when the pool hands out a connection
BeginPooled(w) == ConnFree /\ Begin(w)

\* update_job_status(&pool, ...) runs when the pool hands out a connection
FinishPooled(i, status) == ConnFree /\ Finish(i, status)

\* a step of a claim, a spawn, or the finalization of a job
ProgressPooled ==
    \/ \E w \in Workers : BeginPooled(w)
    \/ \E w \in Workers : SelectSome(w)
    \/ \E w \in Workers : SelectNone(w)
    \/ \E w \in Workers : Commit(w)
    \/ \E w \in Workers : Spawn(w)
    \/ \E i \in Ids : \E s \in Outcomes : FinishPooled(i, s)

NextPooled ==
    \/ ProgressPooled
    \/ \E w \in Workers : Wake(w)

SpecPooled == InitSpaced /\ [][NextPooled]_vars

\* C21: with a single connection for the worker loops and the executors,
\* in every reachable state a claim or a finalization can take a step,
\* unless every loop is in its sleep and no executor runs.
NoPoolDeadlock ==
    \/ (\A w \in Workers : pc[w] = "sleep") /\ InFlight = 0
    \/ ENABLED ProgressPooled

\* a claim transaction holds the connection while the other loop is about
\* to begin one and an executor is about to finalize its job
NoPoolDeadlockWitness ==
    /\ \E w \in Workers : InCall(w)
    /\ \E w \in Workers : pc[w] = "top"
    /\ InFlight = 1

\* C22: bulk_create of an empty list returns Ok(0) and changes neither the
\* table nor the clock the store's statements read: it runs no statement.
EmptyBulkNoOp ==
    [][(last'.st = "bulk" /\ last' # last /\ last'.k = 0) =>
        /\ last'.ok
        /\ last'.ret = 0
        /\ jobs' = jobs
        /\ now' = now]_vars

\* bulk_create of an empty list has returned, the table holding a row
EmptyBulkNoOpWitness ==
    /\ last.st = "bulk"
    /\ last.k = 0
    /\ last.ok
    /\ Len(jobs) >= 1

(***************************************************************************)
(* The bulk upload handler, POST /bulk: validate each job of the uploaded  *)
(* array, bulk_create the valid ones, answer with the count created and    *)
(* one error entry per invalid job.                                        *)
(***************************************************************************)
\* names of 2, 3, 10 and 11 characters
UploadNames == {"ab", "abc", "abcdefghij", "abcdefghijk"}

\* the number of characters of a name
NameLen(name) ==
    CASE name = "ab" -> 2
      [] name = "abc" -> 3
      [] name = "abcdefghij" -> 10
      [] name = "abcdefghijk" -> 11
      [] name = "alpha" -> 5
      [] name = "beta" -> 4

UploadJobs == [name : UploadNames, status : {"New"}]

UploadInputs == UNION {[1..n -> UploadJobs] : n \in 0..MaxBulk}

\* a faulty variant of Validates: the bounds taken as exclusive
ValidatesExclusive(j) == NameLen(j.name) > 3 /\ NameLen(j.name) < 10

\* job.validate(): #[validate(length(min = 3, max = 10))] on name
Validates(j) == NameLen(j.name) >= 3 /\ NameLen(j.name) <= 10

\* errors.push(JobError { name, errors: error_messages })
JobError(j) ==
    [name |-> j.name, errors |-> <<"Name must be between 3 and 10 characters">>]

\* the loop over the uploaded jobs: valid_jobs, in upload order
RECURSIVE ValidJobs(_)
ValidJobs(js) ==
    IF js = << >> THEN << >>
    ELSE IF Validates(Head(js)) THEN <<Head(js)>> \o ValidJobs(Tail(js))
                                ELSE ValidJobs(Tail(js))

\* the loop over the uploaded jobs: errors, in upload order
RECURSIVE UploadErrors(_)
UploadErrors(js) ==
    IF js = << >> THEN << >>
    ELSE IF Validates(Head(js)) THEN UploadErrors(Tail(js))
                                ELSE <<JobError(Head(js))>> \o UploadErrors(Tail(js))

\* 200 with BulkJobResponse { created, errors }: bulk_create returned
\* Ok(count), or there was no valid job and it was not called
BulkUpload(js) ==
    LET valid == ValidJobs(js) IN
    /\ server = "serving"
    /\ valid # << >> => dbOpen
    /\ Len(jobs) + Len(valid) <= MaxJobs
    /\ \E t \in Times :
         LET table == InsertAll(jobs, valid, t) IN
         /\ jobs' = table
         /\ now' = IF valid = << >> THEN now ELSE t
         /\ last' = Record([st |-> "upload", ok |-> TRUE, js |-> js,
                            before |-> Len(jobs),
                            created |-> IF valid = << >> THEN 0
                                        ELSE Len(table) - Len(jobs),
                            errors |-> UploadErrors(js)])
    /\ UNCHANGED <<dbOpen, workerVars, permits, semClosed, exec, coordVars>>

\* 500: bulk_create returned Err
BulkUploadFail(js) ==
    LET valid == ValidJobs(js) IN
    /\ server = "serving"
    /\ valid # << >>
    /\ Len(jobs) + Len(valid) <= MaxJobs
    /\ \E t \in Times :
         jobs' = FailedBulkTable(jobs, valid, t)
    /\ last' = Record([st |-> "upload", ok |-> FALSE, js |-> js,
                       before |-> Len(jobs)])
    /\ UNCHANGED <<now, dbOpen, workerVars, permits, semClosed, exec, coordVars>>

NextUpload ==
    \/ \E js \in UploadInputs : BulkUpload(js)
    \/ \E js \in UploadInputs : BulkUploadFail(js)

SpecUpload == InitStore /\ [][NextUpload]_vars

\* the positions of the uploaded jobs whose name has 3 to 10 characters
InRange(js) == {k \in 1..Len(js) : NameLen(js[k].name) \in 3..10}

\* the m-th smallest element of a set of numbers
RECURSIVE Nth(_, _)
Nth(S, m) ==
    LET least == CHOOSE x \in S : \A y \in S : x <= y
    IN IF m = 1 THEN least ELSE Nth(S \ {least}, m - 1)

\* C23: after a bulk upload of n jobs that the store accepted, the rows
\* added are the jobs whose name has 3 to 10 characters, in upload order,
\* every other job has exactly one entry in errors and no row, created is
\* the number of rows added, and created + |errors| = n.
UploadPartition ==
    (last.st = "upload" /\ last.ok) =>
        LET js == last.js
            good == InRange(js)
            bad == (1..Len(js)) \ good
        IN /\ last.created = Cardinality(good)
           /\ Len(last.errors) = Cardinality(bad)
           /\ last.created + Len(last.errors) = Len(js)
           /\ Len(jobs) = last.before + last.created
           /\ \A m \in 1..Cardinality(good) :
                jobs[last.before + m].name = js[Nth(good, m)].name
           /\ \A m \in 1..Cardinality(bad) :
                last.errors[m].name = js[Nth(bad, m)].name

\* an upload of a valid and an invalid job, each name at a bound, has
\* been answered
UploadPartitionWitness ==
    /\ last.st = "upload"
    /\ last.ok
    /\ Len(last.js) = 2
    /\ last.created = 1
    /\ Len(last.errors) = 1
    /\ \E k \in 1..2 : last.js[k].name = "abcdefghij"
    /\ \E k \in 1..2 : last.js[k].name = "ab"

\* the claim transactions of other loops that hold a row lock
Overlaps(w) == {v \in Workers \ {w} : tx[v] # 0}

\* the select of worker w returns a row in this step
SelectsRow(w) == pc[w] = "select" /\ pc'[w] = "commit"

\* row i is strictly later than row k in (created_at, id) order
Later(i, k) ==
    \/ jobs[i].created_at > jobs[k].created_at
    \/ jobs[i].created_at = jobs[k].created_at /\ i > k

\* the rows in status new that no transaction has locked
Unlocked == {k \in NewIds : \A v \in Workers : tx[v] # k}

\* C24 as stated: a select that returns a row while another claim
\* transaction holds a row returns a different row, strictly later in
\* (created_at, id) order than the row held.
ContendedHeadLater ==
    [][\A w \in Workers : \A v \in Overlaps(w) :
        SelectsRow(w) => tx'[w] # tx[v] /\ Later(tx'[w], tx[v])]_vars

\* C24: a select that runs while other claim transactions hold rows is not
\* blocked by them: it returns a row or none at once.  The row it returns
\* is none of the rows held, has committed status new and is oldest by
\* created_at among the rows in status new that are not locked; it returns
\* none only when there is no such row.
ContendedHeadSkips ==
    [][\A w \in Workers :
        (pc[w] = "select" /\ Overlaps(w) # {}) =>
            /\ (ENABLED SelectSome(w)) \/ (ENABLED SelectNone(w))
            /\ (ENABLED SelectNone(w)) => Unlocked = {}
            /\ SelectsRow(w) =>
                 /\ \A v \in Overlaps(w) : tx'[w] # tx[v]
                 /\ tx'[w] \in Unlocked
                 /\ \A k \in Unlocked :
                      jobs[tx'[w]].created_at <= jobs[k].created_at]_vars

\* two claim transactions are open at once, each with a row of its own
\* locked, the rows stored at different times
ContendedHeadSkipsWitness ==
    \E v \in Workers : \E w \in Workers :
        /\ v # w
        /\ pc[v] = "commit" /\ pc[w] = "commit"
        /\ tx[v] = 2 /\ tx[w] = 1
        /\ jobs[1].created_at < jobs[2].created_at

\* the claim transaction of worker w, with a row selected, fails in this
\* step: the call ends without returning a job
ClaimAborts(w) == pc[w] = "commit" /\ pc'[w] \notin {"commit", "permit"}

\* C25: when a claim transaction fails after its select and before its
\* commit, acquire_next_job returns the error (the loop goes to its 1 s
\* sleep with no job), the table is as it was, with the row in status
\* new, no transaction holds the row's lock, and the row is among those
\* the select of a later call chooses from.
AbortedClaimReverts ==
    [][\A w \in Workers :
        ClaimAborts(w) =>
            /\ pc'[w] = AfterError
            /\ job'[w] = job[w]
            /\ jobs' = jobs
            /\ jobs[tx[w]].status = "new"
            /\ jobs'[tx[w]].status = "new"
            /\ \A v \in Workers : tx'[v] # tx[w]
            /\ tx[w] \in Unlocked']_vars

\* the oldest row is in status new and unlocked while a claim transaction
\* holds the younger row: that transaction skipped the oldest row, which
\* was locked by a transaction that has failed since
AbortedClaimRevertsWitness ==
    /\ Len(jobs) >= 2
    /\ jobs[1].status = "new"
    /\ jobs[1].created_at < jobs[2].created_at
    /\ \A w \in Workers : tx[w] # 1
    /\ \E v \in Workers : tx[v] = 2

\* C26: while no row in status new is unlocked, the select of
\* acquire_next_job returns no row, at once, and the step that ends the
\* call changes no row, takes no lock and returns no job: the loop goes to
\* its sleep.
EmptyClaimNoOp ==
    [][\A w \in Workers :
        (pc[w] = "select" /\ Unlocked = {}) =>
            /\ ENABLED SelectNone(w)
            /\ ~ENABLED SelectSome(w)
            /\ pc'[w] # "select" =>
                 /\ pc'[w] = AfterNone
                 /\ jobs' = jobs
                 /\ now' = now
                 /\ tx' = tx
                 /\ job' = job]_vars

\* a call has returned None while the only row in status new is locked by
\* the open transaction of another call
EmptyClaimNoOpWitness ==
    \E w \in Workers : \E v \in Workers :
        /\ pc[w] = "sleep"
        /\ pc[v] = "commit"
        /\ jobs[tx[v]].status = "new"
        /\ Unlocked = {}

\* the claim transaction of worker w commits in this step
ClaimCommits(w) == pc[w] = "commit" /\ pc'[w] = "permit"

\* C27: the record a successful acquire_next_job returns has status
\* processing, and when the clock has moved on since the row was stored
\* its updated_at is later than its created_at.
ClaimStampsUpdatedAt ==
    [][\A w \in Workers :
        ClaimCommits(w) =>
            /\ job'[w].status = "processing"
            /\ now > jobs[tx[w]].created_at =>
                 job'[w].updated_at > job'[w].created_at]_vars

\* a call has returned a record claimed later than it was stored, with
\* updated_at still equal to created_at
ClaimStampsUpdatedAtWitness ==
    \E w \in Workers :
        /\ pc[w] = "permit"
        /\ job[w].status = "processing"
        /\ now > job[w].created_at
        /\ job[w].updated_at = job[w].created_at

(***************************************************************************)
(* The worker loops and the executor tasks over a table seeded with rows   *)
(* in status new, store errors of update_job_status included; no ingress,  *)
(* no shutdown.                                                            *)
(***************************************************************************)
InitExec ==
    /\ jobs \in UNION {SpacedRows(n) : n \in 0..MaxJobs}
    /\ now = IF jobs = << >> THEN 0 ELSE jobs[Len(jobs)].created_at
    /\ dbOpen = TRUE
    /\ pc = [w \in Workers |-> "top"]
    /\ tx = [w \in Workers |-> 0]
    /\ job = [w \in Workers |-> NoJob]
    /\ permits = MaxConcurrentJobs
    /\ semClosed = FALSE
    /\ exec = [i \in Ids |-> NoExec]
    /\ flag = FALSE
    /\ server = "serving"
    /\ cpc = "wait"
    /\ joined = 0
    /\ last = NoLast

NextExec ==
    \/ \E w \in Workers : Claiming(w)
    \/ \E w \in Workers : Wake(w)
    \/ \E w \in Workers : Spawn(w)
    \/ \E i \in Ids : Executor(i)

SpecExec == InitExec /\ [][NextExec]_vars

\* C28: once the update_job_status call of the executor of a job has
\* failed, the executor has ended, having made that one call, and the
\* job's row is in status processing.
NoRetryOnFinalize ==
    last.st = "finalize failed" =>
        /\ exec[last.i].run = 0
        /\ exec[last.i].done = 1
        /\ jobs[last.i].status = "processing"

\* the update of a job has failed, its executor is gone and every permit
\* is back, while the row is still in status processing
NoRetryOnFinalizeWitness ==
    /\ last.st = "finalize failed"
    /\ jobs[last.i].status = "processing"
    /\ InFlight = 0
    /\ permits = MaxConcurrentJobs

\* C29: the permits available and the permits held by the executor tasks
\* spawned and not ended are max_concurrent_jobs together, in every state:
\* a task takes one permit when it is spawned and gives one back when it
\* ends, whether update_job_status returned Ok or Err.
PermitConservation == permits + InFlight = MaxConcurrentJobs

\* one executor has ended after a failed update, its row still in status
\* processing, another after a successful one, and every permit is back
PermitConservationWitness ==
    \E i \in RowIds : \E k \in RowIds :
        /\ exec[i].done = 1 /\ jobs[i].status = "processing"
        /\ exec[k].done = 1 /\ jobs[k].status \in Terminal
        /\ permits = MaxConcurrentJobs

(***************************************************************************)
(* The head of the worker loop in two steps: the flag is read, and then    *)
(* acquire_next_job begins its transaction.  The coordinator may send on   *)
(* the channel between the two.  pc[w] = "go" is a loop that has read the  *)
(* flag as false and whose call has not begun its transaction yet.         *)
(* The history counts the calls that begin with the flag set:              *)
(*   started[w]  such calls of loop w                                      *)
(*   open        the loops whose latest call is one of them                *)
(*   claimed     the jobs such calls have claimed                          *)
(* and   handed  the executors spawned with the flag set                   *)
(***************************************************************************)
NoLate == [st |-> "late", started |-> [w \in Workers |-> 0], open |-> {},
           claimed |-> 0, handed |-> 0]

InitFlag ==
    /\ jobs \in UNION {SpacedRows(n) : n \in 0..MaxJobs}
    /\ now = IF jobs = << >> THEN 0 ELSE jobs[Len(jobs)].created_at
    /\ dbOpen = TRUE
    /\ pc = [w \in Workers |-> "top"]
    /\ tx = [w \in Workers |-> 0]
    /\ job = [w \in Workers |-> NoJob]
    /\ permits = MaxConcurrentJobs
    /\ semClosed = FALSE
    /\ exec = [i \in Ids |-> NoExec]
    /\ flag = FALSE
    /\ server = "serving"
    /\ cpc = "wait"
    /\ joined = 0
    /\ last = NoLate

\* if *shutdown_rx.borrow() { break; } with the flag read as false
ReadShutdown(w) ==
    /\ pc[w] = "top"
    /\ ~ShutdownRx
    /\ pc' = [pc EXCEPT ![w] = "go"]
    /\ UNCHANGED <<storeVars, tx, job, permits, semClosed, exec, coordVars, last>>

\* JobRepository::acquire_next_job(&self.pool): pool.begin()
BeginAfterRead(w) ==
    /\ pc[w] = "go"
    /\ dbOpen
    /\ pc' = [pc EXCEPT ![w] = "select"]
    /\ last' = IF flag
               THEN [last EXCEPT !.started[w] = @ + 1, !.open = @ \cup {w}]
               ELSE [last EXCEPT !.open = @ \ {w}]
    /\ UNCHANGED <<storeVars, tx, job, permits, semClosed, exec, coordVars>>

WorkerFlag(w) ==
    \/ ObserveShutdown(w)
    \/ ReadShutdown(w)
    \/ BeginAfterRead(w)
    \/ SelectSome(w)
    \/ SelectNone(w)
    \/ Commit(w)
    \/ Wake(w)
    \/ Spawn(w)

NextFlag ==
    \/ \E w \in Workers : WorkerFlag(w)
    \/ \E i \in Ids : Executor(i)
    \/ Coordinator

SpecFlag == InitFlag /\ [][NextFlag]_vars

\* C30: a loop reads the flag only at the head of an iteration, and once
\* the flag is set no loop reads it as false: each loop begins at most one
\* call with the flag set, the one it was about to make when the flag was
\* set; the jobs claimed by such calls are no more than the loops that made
\* one, so at most num_workers.
ClaimsBoundedAfterFlag ==
    /\ \A w \in Workers :
         /\ last.started[w] <= 1
         /\ (flag /\ pc[w] = "top") => ~ENABLED ReadShutdown(w)
    /\ last.claimed <= Cardinality({w \in Workers : last.started[w] >= 1})
    /\ last.claimed <= NumWorkers

\* every loop has made a call that began with the flag set, each of these
\* calls has claimed a job, and every loop has ended
ClaimsBoundedAfterFlagWitness ==
    /\ flag
    /\ \A w \in Workers : last.started[w] = 1 /\ pc[w] = "stopped"
    /\ last.claimed = NumWorkers

Pending == {i \in RowIds : jobs[i].status = "processing" /\ exec[i].done = 0}

\* the loops that hold a claimed job and await a permit for it
AwaitingPermit == {w \in Workers : pc[w] = "permit"}

\* C32: over rows stored as new, the rows in status processing whose
\* executor has not ended are those of the executors in flight, at most
\* max_concurrent_jobs, and those held by the loops that await a permit,
\* one for each such loop: at most max_concurrent_jobs + num_workers.
ClaimPrecedesPermit ==
    /\ Cardinality(Pending) = InFlight + Cardinality(AwaitingPermit)
    /\ InFlight <= MaxConcurrentJobs
    /\ Cardinality(Pending) <= MaxConcurrentJobs + NumWorkers

\* more rows are in status processing, their executor not ended, than
\* there are permits: every permit is taken and a loop has committed the
\* claim of another job
ClaimPrecedesPermitWitness ==
    /\ Cardinality(Pending) > MaxConcurrentJobs
    /\ InFlight = MaxConcurrentJobs
    /\ AwaitingPermit # {}

\* C33: a loop that holds a claimed job while the flag is set does not end
\* there: it leaves the permit wait only by taking a permit that was
\* available and spawning the executor of that job, whose row is in status
\* processing, and goes back to the head of the loop with no job left.
NoClaimedJobDropped ==
    [][\A w \in Workers :
        (flag /\ pc[w] = "permit" /\ pc'[w] # "permit") =>
            /\ pc'[w] = "top"
            /\ permits > 0
            /\ permits' = permits - 1
            /\ jobs[job[w].id].status = "processing"
            /\ exec'[job[w].id].run = exec[job[w].id].run + 1
            /\ job'[w] = NoJob]_vars

\* an executor was spawned with the flag set, and every loop has ended
\* since, none with a job in its hands
NoClaimedJobDroppedWitness ==
    /\ flag
    /\ last.handed >= 1
    /\ \A w \in Workers : pc[w] = "stopped" /\ job[w] = NoJob

\* row i is claimed and nobody has its job: no loop holds it and no
\* executor was spawned for it
Orphaned(i) ==
    /\ jobs[i].status = "processing"
    /\ exec[i] = NoExec
    /\ \A w \in Workers : job[w].id # i

\* C34: when the permit wait of a loop that holds a claimed job fails, the
\* job is dropped: its row is in status processing, no loop holds it and it
\* has no executor; and a row in that state stays in it in every step.
OrphanedOnPermitFailure ==
    [][/\ \A w \in Workers :
            (pc[w] = "permit" /\ pc'[w] # "permit") =>
                /\ jobs'[job[w].id].status = "processing"
                /\ exec'[job[w].id] = NoExec
                /\ \A v \in Workers : job'[v].id # job[w].id
       /\ \A i \in RowIds :
            Orphaned(i) =>
                /\ jobs'[i] = jobs[i]
                /\ exec'[i] = NoExec
                /\ \A w \in Workers : job'[w].id # i]_vars

\* the permit wait for every claimed job has failed, and the process has
\* gone through shutdown and exited with the rows still in status
\* processing
OrphanedOnPermitFailureWitness ==
    /\ semClosed
    /\ cpc = "exited"
    /\ Len(jobs) >= 2
    /\ \A i \in RowIds : Orphaned(i)

\* the executor task of job i ends in this step
ExecutorEnds(i) == exec'[i].done > exec[i].done

\* the table after the step differs from the table before at most in the
\* status and updated_at of row i
OnlyStatusOf(i) ==
    /\ DOMAIN jobs' = DOMAIN jobs
    /\ \A k \in RowIds :
         /\ k # i => jobs'[k] = jobs[k]
         /\ jobs'[k].id = jobs[k].id
         /\ jobs'[k].name = jobs[k].name
         /\ jobs'[k].created_at = jobs[k].created_at

\* C35: the commit of a claim changes at most the status and updated_at of
\* the row claimed, and so does the end of an executor for the row of its
\* job: id, name and created_at of that row and every other row are as
\* they were.
FrameOfClaimAndFinalize ==
    [][/\ \A w \in Workers : ClaimCommits(w) => OnlyStatusOf(tx[w])
       /\ \A i \in Ids : ExecutorEnds(i) => OnlyStatusOf(i)]_vars

\* a second row sits beside a row that was claimed and finalized at a
\* later time than it was stored
FrameOfClaimAndFinalizeWitness ==
    \E i \in RowIds : \E k \in RowIds :
        /\ i # k
        /\ exec[i].done = 1
        /\ jobs[i].status \in Terminal
        /\ jobs[i].updated_at > jobs[i].created_at

\* C36: a row stored with a status other than new is outside the worker
\* pool from the step that stores it: no claim transaction locks it, no
\* acquire_next_job call returns it, no executor is spawned for it, and
\* it is the same in every later step.
OnlyNewRowsEnter ==
    [][\A i \in DOMAIN jobs' :
        (\/ i \notin RowIds /\ jobs'[i].status # "new"
         \/ /\ i \in RowIds
            /\ jobs[i].status # "new"
            /\ exec[i] = NoExec
            /\ \A w \in Workers : tx[w] # i /\ job[w].id # i)
        => /\ exec'[i] = NoExec
           /\ \A w \in Workers : tx'[w] # i /\ job'[w].id # i
           /\ i \in RowIds => jobs'[i] = jobs[i]]_vars

\* a row stored with status processing has been left alone, while the
\* row stored as new beside it was claimed and finalized
OnlyNewRowsEnterWitness ==
    \E i \in RowIds : \E k \in RowIds :
        /\ jobs[i].status = "processing"
        /\ exec[i] = NoExec
        /\ \A w \in Workers : job[w].id # i
        /\ exec[k].done = 1
        /\ jobs[k].status \in Terminal
        /\ k > i

(***************************************************************************)
(* ShutdownCoordinator::shutdown with the faults it has arms for: a worker *)
(* task that panicked, whose handle.await is Err; a server task that ended *)
(* with an error; a send on the channel that fails.  The send fails only   *)
(* with no receiver left.  main keeps a receiver of its own, so in the     *)
(* program the send succeeds; the failing send is a run of shutdown with   *)
(* that receiver gone and every worker task, each owning one, ended.       *)
(* Every task is fairly scheduled; the faults are not.                     *)
(***************************************************************************)
\* the task of worker w panics: it ends there, what it owns is dropped
WorkerPanics(w) ==
    /\ Running
    /\ pc[w] \notin {"stopped", "panicked"}
    /\ pc' = [pc EXCEPT ![w] = "panicked"]
    /\ tx' = RolledBack(w)
    /\ job' = [job EXCEPT ![w] = NoJob]
    /\ UNCHANGED <<storeVars, permits, semClosed, exec, coordVars, last>>

\* the server task ends with an error before the signal
ServerFails ==
    /\ server = "serving"
    /\ cpc = "wait"
    /\ server' = "failed"
    /\ UNCHANGED <<storeVars, workerVars, permits, semClosed, exec, flag, cpc,
                   joined, last>>

\* if let Err(e) = self.shutdown_tx.send(true) { error!(...) }: no
\* receiver is left, the value is not stored, shutdown goes on
SendShutdownFails ==
    /\ cpc = "send"
    /\ \A w \in Workers : WorkerFinished(w)
    /\ cpc' = "join"
    /\ UNCHANGED <<storeVars, workerVars, permits, semClosed, exec, flag, server,
                   joined, last>>

CoordinatorFaulty == Coordinator \/ SendShutdownFails

NextFaulty ==
    \/ \E w \in Workers : Worker(w)
    \/ \E w \in Workers : WorkerPanics(w)
    \/ \E i \in Ids : Executor(i)
    \/ ServerFails
    \/ CoordinatorFaulty

SpecFaulty ==
    /\ InitSpaced
    /\ [][NextFaulty]_vars
    /\ \A w \in Workers : WF_vars(Worker(w))
    /\ \A i \in Ids : WF_vars(Executor(i))
    /\ WF_vars(CoordinatorFaulty)

\* the steps of shutdown, in the order of the code
ShutdownSteps ==
    {<<"wait", "send">>, <<"send", "join">>, <<"join", "server">>,
     <<"server", "close">>, <<"close", "done">>, <<"done", "exited">>}

\* C37: once the signal has arrived shutdown goes through its steps in
\* order, none skipped, and reaches its end with the pool closed, whether
\* or not the send failed, a worker task panicked or the server task ended
\* with an error.
ShutdownCompletes ==
    /\ [][cpc' # cpc => <<cpc, cpc'>> \in ShutdownSteps]_vars
    /\ [][dbOpen' # dbOpen => cpc = "close" /\ cpc' = "done"]_vars
    /\ (cpc = "send") ~> (cpc = "done" /\ ~dbOpen)

\* shutdown has returned with the pool closed after a run in which the
\* server task had failed, every worker task had panicked and the send
\* had failed
ShutdownCompletesWitness ==
    /\ cpc = "done"
    /\ ~dbOpen
    /\ ~flag
    /\ server = "failed"
    /\ joined = NumWorkers
    /\ \A w \in Workers : pc[w] = "panicked"
=============================================================================
